---- MODULE Spec2Model ----
(***************************************************************************)
(* HyStart++ slow start (neqo-transport/src/cc/hystart.rs).                *)
(*                                                                         *)
(* The engine is one object (`limit`, `current`) driven by two entry       *)
(* points, on_packet_sent and on_packets_acked.  Every call is one atomic  *)
(* step.  Durations are counted in nanoseconds, the resolution of          *)
(* std::time::Duration; usize and Duration keep a most significant bound   *)
(* (usize_MAX, Duration_MAX) whose width is scaled down to UsizeBits and   *)
(* DurationBits so that the sentinel, the saturation and the overflow      *)
(* cases are inside the explored range.                                    *)
(***************************************************************************)
EXTENDS Integers, Naturals, Sequences, FiniteSets, TLC

----------------------------------------------------------------------------
\* Bounds of the exploration.

\* width of usize in the model
UsizeBits == 16
\* width of the nanosecond count of a Duration in the model
DurationBits == 29
\* packet numbers are 0..MaxPn
MaxPn == 1
\* on_packets_acked is explored while rtt_sample_count < MaxSamples
MaxSamples == 8
\* round closures in CSS are explored while css_round_count < MaxCssRounds
MaxCssRounds == 6

----------------------------------------------------------------------------
\* Types and constants of the source.

usize_MAX == 2^UsizeBits - 1

Duration_MAX == 2^DurationBits - 1

from_millis(ms) == ms * 1000000

MIN_RTT_THRESH == from_millis(4)

MAX_RTT_THRESH == from_millis(16)

MIN_RTT_DIVISOR == 8

N_RTT_SAMPLE == 8

CSS_GROWTH_DIVISOR == 4

CSS_ROUNDS == 5

NON_PACED_L == 8

\* Option<packet::Number>: None is the empty set, Some(pn) the singleton.
None == {}

Some(pn) == {pn}

is_some(o) == o # None

unwrap(o) == CHOOSE pn \in o : TRUE

min(a, b) == IF a <= b THEN a ELSE b

max(a, b) == IF a >= b THEN a ELSE b

\* usize::saturating_mul, computed without leaving the usize range.
saturating_mul(a, b) ==
    IF a = 0 \/ b = 0 THEN 0
    ELSE IF a > usize_MAX \div b THEN usize_MAX
    ELSE a * b

\* Duration + Duration is a checked addition that panics on overflow.
add_overflows(a, b) == a > Duration_MAX - b

\* Duration / u32 : floor of the nanosecond count.
duration_div(d, k) == d \div k

----------------------------------------------------------------------------
\* The Round-Tracking State and the helpers of HyStart.

State_new ==
    [ last_round_min_rtt    |-> Duration_MAX,
      current_round_min_rtt |-> Duration_MAX,
      rtt_sample_count      |-> 0,
      window_end            |-> None,
      css_baseline_min_rtt  |-> Duration_MAX,
      css_round_count       |-> 0 ]

HyStart_new(pacing) == IF pacing THEN usize_MAX ELSE NON_PACED_L

\* #[derive(Default)] on State: Duration::default() is the zero duration,
\* usize::default() is 0 and Option::default() is None.
State_default ==
    [ last_round_min_rtt    |-> 0,
      current_round_min_rtt |-> 0,
      rtt_sample_count      |-> 0,
      window_end            |-> None,
      css_baseline_min_rtt  |-> 0,
      css_round_count       |-> 0 ]

\* #[derive(Default)] on HyStart: the limit is usize::default()
HyStart_default == 0

in_css(s) == s.css_baseline_min_rtt # Duration_MAX

\* mutant: the sample overwrites the round minimum
collect_rtt_sample_overwrite(s, rtt) ==
    [s EXCEPT !.current_round_min_rtt = rtt,
              !.rtt_sample_count = @ + 1]

collect_rtt_sample(s, rtt) ==
    [s EXCEPT !.current_round_min_rtt = min(@, rtt),
              !.rtt_sample_count = @ + 1]

\* mutant: the exit is signalled in the round CSS_ROUNDS only
maybe_exit_to_ca_once(s) ==
    LET t == [s EXCEPT !.css_round_count = @ + 1]
    IN  [state |-> t, exit |-> t.css_round_count = CSS_ROUNDS]

\* mutant: the exit needs more than CSS_ROUNDS rounds
maybe_exit_to_ca_strict(s) ==
    LET t == [s EXCEPT !.css_round_count = @ + 1]
    IN  [state |-> t, exit |-> t.css_round_count > CSS_ROUNDS]

\* the state after the increment, and the returned flag
maybe_exit_to_ca(s) ==
    LET t == [s EXCEPT !.css_round_count = @ + 1]
    IN  [state |-> t, exit |-> t.css_round_count >= CSS_ROUNDS]

\* mutant: the growth is not divided in CSS
calc_cwnd_increase_undivided(lim, new_acked, max_datagram_size, css) ==
    min(saturating_mul(lim, max_datagram_size), new_acked)

calc_cwnd_increase(lim, new_acked, max_datagram_size, css) ==
    LET cwnd_increase == min(saturating_mul(lim, max_datagram_size), new_acked)
    IN  IF css THEN cwnd_increase \div CSS_GROWTH_DIVISOR ELSE cwnd_increase

enough_samples(s) == s.rtt_sample_count >= N_RTT_SAMPLE

\* mutant: the new round keeps the sample count of the old one
maybe_start_new_round_keep_count(s, sent_pn) ==
    IF is_some(s.window_end)
    THEN s
    ELSE [s EXCEPT !.window_end = Some(sent_pn),
                   !.last_round_min_rtt = s.current_round_min_rtt,
                   !.current_round_min_rtt = Duration_MAX]

\* mutant: the new round does not take over the minimum of the old one
maybe_start_new_round_no_rotate(s, sent_pn) ==
    IF is_some(s.window_end)
    THEN s
    ELSE [s EXCEPT !.window_end = Some(sent_pn),
                   !.current_round_min_rtt = Duration_MAX,
                   !.rtt_sample_count = 0]

\* mutant: no early return when a round is open
maybe_start_new_round_always(s, sent_pn) ==
    [s EXCEPT !.window_end = Some(sent_pn),
              !.last_round_min_rtt = s.current_round_min_rtt,
              !.current_round_min_rtt = Duration_MAX,
              !.rtt_sample_count = 0]

maybe_start_new_round(s, sent_pn) ==
    IF is_some(s.window_end)
    THEN s
    ELSE [s EXCEPT !.window_end = Some(sent_pn),
                   !.last_round_min_rtt = s.current_round_min_rtt,
                   !.current_round_min_rtt = Duration_MAX,
                   !.rtt_sample_count = 0]

----------------------------------------------------------------------------
\* The steps of HyStart::on_packets_acked after the fallback gate.

\* ClassicSlowStart::on_packets_acked on a default instance: the growth that
\* fills the window up to ssthresh, and whether ssthresh is reached.
ClassicSlowStart_on_packets_acked(curr_cwnd, ssthresh, new_acked) ==
    LET room == IF ssthresh >= curr_cwnd THEN ssthresh - curr_cwnd ELSE 0
        cwnd_increase == min(room, new_acked)
    IN  [ cwnd_increase   |-> cwnd_increase,
          exit_slow_start |-> curr_cwnd + cwnd_increase >= ssthresh ]

\* mutant: the precondition is not asserted
precondition_unchecked(curr_cwnd, ssthresh) == TRUE

\* the debug_assert! at the head of on_packets_acked
precondition(curr_cwnd, ssthresh) == ssthresh >= curr_cwnd

\* mutant: there is no fallback to classic slow start
falls_back_never(ssthresh) == FALSE

\* mutant: the comparison with the sentinel is inverted
falls_back_inverted(ssthresh) == ssthresh = usize_MAX

\* the fallback gate
falls_back(ssthresh) == ssthresh # usize_MAX

\* condition of the exit from CSS back to normal slow start
css_exit_cond(s) ==
    /\ in_css(s)
    /\ enough_samples(s)
    /\ s.current_round_min_rtt < s.css_baseline_min_rtt

\* mutant: the exit from CSS keeps the count of CSS rounds
css_exit_keep_count(s) ==
    [s EXCEPT !.css_baseline_min_rtt = Duration_MAX]

css_exit(s) ==
    [s EXCEPT !.css_baseline_min_rtt = Duration_MAX,
              !.css_round_count = 0]

\* outer condition of the CSS entry check
css_entry_guard(s) ==
    /\ ~in_css(s)
    /\ enough_samples(s)
    /\ s.current_round_min_rtt # Duration_MAX
    /\ s.last_round_min_rtt # Duration_MAX

rtt_thresh(s) ==
    max(MIN_RTT_THRESH,
        min(duration_div(s.last_round_min_rtt, MIN_RTT_DIVISOR), MAX_RTT_THRESH))

\* mutant: the RTT has to exceed the threshold
css_entry_cond_strict(s) ==
    s.current_round_min_rtt > s.last_round_min_rtt + rtt_thresh(s)

\* inner condition of the CSS entry check; evaluated only where the sum exists
css_entry_cond(s) ==
    s.current_round_min_rtt >= s.last_round_min_rtt + rtt_thresh(s)

css_enter(s) ==
    [s EXCEPT !.css_baseline_min_rtt = s.current_round_min_rtt]

\* mutant: the growth is sized by the CSS state the call started in
growth_css_before(before, after) == in_css(before)

\* the css argument of calc_cwnd_increase: self.in_css() as read after the
\* exit and entry checks (`before` is the state those checks started from)
growth_css(before, after) == in_css(after)

\* mutant: the round closure counts by the CSS state the call started in
closure_css_before(before, after) == in_css(before)

\* self.in_css() as read at the round closure, after the exit and entry
\* checks (`before` is the state those checks started from)
closure_css(before, after) == in_css(after)

\* mutant: the round ends only beyond its last packet
round_ends_beyond(s, largest_acked) ==
    /\ is_some(s.window_end)
    /\ largest_acked > unwrap(s.window_end)

\* the end-of-round condition
round_ends(s, largest_acked) ==
    /\ is_some(s.window_end)
    /\ largest_acked >= unwrap(s.window_end)

\* One run of the HyStart path of on_packets_acked from state s: the state
\* it leaves, the result it returns, whether it panicked, and which of its
\* steps were taken.
hystart_path(lim, s, new_acked, rtt, max_datagram_size, largest_acked) ==
    LET s1       == collect_rtt_sample(s, rtt)
        exits    == css_exit_cond(s1)
        s2       == IF exits THEN css_exit(s1) ELSE s1
        guard    == css_entry_guard(s2)
        overflow == guard /\ add_overflows(s2.last_round_min_rtt, rtt_thresh(s2))
        enters   == guard /\ ~overflow /\ css_entry_cond(s2)
        s3       == IF enters THEN css_enter(s2) ELSE s2
        cwnd_increase ==
            calc_cwnd_increase(lim, new_acked, max_datagram_size,
                               growth_css(s1, s3))
        ends     == round_ends(s3, largest_acked)
        s4       == IF ends THEN [s3 EXCEPT !.window_end = None] ELSE s3
        counts   == ends /\ closure_css(s1, s4)
        ca       == maybe_exit_to_ca(s4)
        s5       == IF counts THEN ca.state ELSE s4
    IN  IF overflow
        THEN [ state |-> s2, panicked |-> TRUE,
               result |-> [cwnd_increase |-> 0, exit_slow_start |-> FALSE],
               css_exit |-> exits, css_entry |-> FALSE,
               round_end |-> FALSE, css_round |-> FALSE ]
        ELSE [ state |-> s5, panicked |-> FALSE,
               result |-> [ cwnd_increase   |-> cwnd_increase,
                            exit_slow_start |-> counts /\ ca.exit ],
               css_exit |-> exits, css_entry |-> enters,
               round_end |-> ends, css_round |-> counts ]

----------------------------------------------------------------------------
\* Inputs.

PacketNumbers == 0 .. MaxPn

\* <<curr_cwnd, ssthresh>> of the initial slow start (no threshold discovered)
InitialSlowStart == << 12000, usize_MAX >>

\* <<curr_cwnd, ssthresh>> of a later slow start, and of a caller that breaks
\* the precondition
LaterSlowStart == { << 12000, 20000 >>, << 20000, 12000 >> }

\* RTT samples around the entry threshold of a 50 ms round, which is
\* 50 ms + 50 ms / 8 = 56.25 ms, and one clearly above it.
RttSamples ==
    { from_millis(50), from_millis(56) + 249999, from_millis(56) + 250000,
      from_millis(70) }

\* <<new_acked, max_datagram_size>>
Batches == { << 10000, 1200 >> }

\* RTT samples that enter CSS (70 ms after 50 ms) and leave it again, with
\* batches on both sides of limit * max_datagram_size and of the saturation.
GrowthRtts == { from_millis(50), from_millis(70) }

GrowthBatches == { 3, 10000 } \X { 1200, usize_MAX }

\* RTT samples in the clamped ranges of rtt_thresh (8 ms / 8 < 4 ms,
\* 200 ms / 8 > 16 ms), the largest finite Duration and the sentinel itself.
ExtremeRtts ==
    { from_millis(8), from_millis(200), Duration_MAX - 1, Duration_MAX }

\* The arguments of on_packets_acked that a specification explores: every
\* RTT sample, packet number and batch with the initial slow start, and the
\* later slow starts with one RTT sample and packet number.
AckInputs(rtts, batches) ==
    ({InitialSlowStart} \X batches \X rtts \X PacketNumbers)
        \cup (LaterSlowStart \X batches \X {from_millis(50)} \X {MaxPn})

----------------------------------------------------------------------------
\* The state machine.

VARIABLES
    limit,              \* HyStart.limit
    current,            \* HyStart.current
    panicked,           \* "none", or the panic that ended the program
    call,               \* the last call and its arguments
    pre,                \* HyStart.current when the last call started
    ret,                \* what the last call returned
    took,               \* the steps the last on_packets_acked took
    css_closures,       \* round closures in CSS since the last CSS entry
    made,               \* how the engine was constructed
    opener,             \* the first packet sent since the last round closure
    open_acks,          \* HyStart-path acks since the last round opening
    open_min            \* the least RTT sample of those acks

vars ==
    << limit, current, panicked, call, pre, ret, took, css_closures, made,
       opener, open_acks, open_min >>

no_args ==
    [ curr_cwnd |-> 0, ssthresh |-> 0, new_acked |-> 0, rtt |-> 0,
      max_datagram_size |-> 0, pn |-> 0, debug_assertions |-> FALSE ]

no_result == [ cwnd_increase |-> 0, exit_slow_start |-> FALSE ]

no_steps ==
    [ css_exit |-> FALSE, css_entry |-> FALSE, round_end |-> FALSE,
      css_round |-> FALSE ]

\* what is recorded beside the engine is the same for every constructor
fresh(state) ==
    /\ current = state
    /\ pre = state
    /\ panicked = "none"
    /\ ret = no_result
    /\ took = no_steps
    /\ css_closures = 0
    /\ opener = None
    /\ open_acks = 0
    /\ open_min = Duration_MAX

\* HyStart::new(pacing)
Init ==
    /\ \E pacing \in BOOLEAN :
           /\ limit = HyStart_new(pacing)
           /\ made = [ by |-> "new", pacing |-> pacing ]
    /\ call = [ op |-> "new", args |-> no_args ]
    /\ fresh(State_new)

\* HyStart::default()
InitDefault ==
    /\ limit = HyStart_default
    /\ made = [ by |-> "default", pacing |-> FALSE ]
    /\ call = [ op |-> "default", args |-> no_args ]
    /\ fresh(State_default)

on_packet_sent(sent_pn) ==
    /\ panicked = "none"
    /\ current' = maybe_start_new_round(current, sent_pn)
    /\ call' = [ op |-> "on_packet_sent", args |-> [no_args EXCEPT !.pn = sent_pn] ]
    /\ pre' = current
    /\ ret' = no_result
    /\ took' = no_steps
    /\ opener' = IF is_some(opener) THEN opener ELSE Some(sent_pn)
    /\ open_acks' = IF is_some(opener) THEN open_acks ELSE 0
    /\ open_min' = IF is_some(opener) THEN open_min ELSE Duration_MAX
    /\ UNCHANGED << limit, panicked, css_closures, made >>

\* debug_assertions: whether the build that runs this call keeps debug_assert!
on_packets_acked(curr_cwnd, ssthresh, new_acked, rtt, max_datagram_size, largest_acked, debug_assertions) ==
    \E r \in { hystart_path(limit, current, new_acked, rtt, max_datagram_size,
                             largest_acked) } :
    /\ panicked = "none"
    /\ call' = [ op |-> "on_packets_acked",
                 args |-> [ curr_cwnd |-> curr_cwnd, ssthresh |-> ssthresh,
                            new_acked |-> new_acked, rtt |-> rtt,
                            max_datagram_size |-> max_datagram_size,
                            pn |-> largest_acked,
                            debug_assertions |-> debug_assertions ] ]
    /\ pre' = current
    /\ UNCHANGED << limit, made >>
    /\ IF debug_assertions /\ ~precondition(curr_cwnd, ssthresh)
       THEN /\ panicked' = "debug_assert"
            /\ ret' = no_result
            /\ took' = no_steps
            /\ UNCHANGED << current, css_closures, opener, open_acks, open_min >>
       ELSE IF falls_back(ssthresh)
       THEN /\ ret' = ClassicSlowStart_on_packets_acked(curr_cwnd, ssthresh,
                                                        new_acked)
            /\ took' = no_steps
            /\ UNCHANGED << current, panicked, css_closures, opener, open_acks,
                            open_min >>
       ELSE /\ current.rtt_sample_count < MaxSamples
            /\ r.css_round => r.state.css_round_count <= MaxCssRounds
            /\ current' = r.state
            /\ panicked' = IF r.panicked THEN "duration_add" ELSE "none"
            /\ ret' = IF r.panicked THEN no_result ELSE r.result
            /\ took' = [ css_exit |-> r.css_exit, css_entry |-> r.css_entry,
                         round_end |-> r.round_end, css_round |-> r.css_round ]
            /\ css_closures' =
                   IF r.css_round
                   THEN (IF r.css_entry THEN 0 ELSE css_closures) + 1
                   ELSE IF r.css_entry \/ r.css_exit THEN 0 ELSE css_closures
            /\ opener' = IF r.round_end THEN None ELSE opener
            /\ open_acks' = open_acks + 1
            /\ open_min' = IF rtt < open_min THEN rtt ELSE open_min

sent == \E sent_pn \in PacketNumbers : on_packet_sent(sent_pn)

acked(inputs) ==
    \E i \in inputs, debug_assertions \in BOOLEAN :
        on_packets_acked(i[1][1], i[1][2], i[2][1], i[3], i[2][2], i[4],
                         debug_assertions)

Next == sent \/ acked(AckInputs(RttSamples, Batches))

Spec == Init /\ [][Next]_vars

\* The same engine with the inputs of the growth computation.
NextGrowth == sent \/ acked(AckInputs(GrowthRtts, GrowthBatches))

SpecGrowth == Init /\ [][NextGrowth]_vars

\* The same engine with the extreme durations.
NextExtreme == sent \/ acked(AckInputs(ExtremeRtts, Batches))

SpecExtreme == Init /\ [][NextExtreme]_vars

\* The same engine made by any constructor the code offers.
NextConstruct == sent \/ acked(AckInputs(GrowthRtts, Batches))

SpecConstruct == (Init \/ InitDefault) /\ [][NextConstruct]_vars

----------------------------------------------------------------------------
\* Properties.

acked_call == call.op = "on_packets_acked"

\* an on_packets_acked call that ran the HyStart path
hystart_call == acked_call /\ call.args.ssthresh = usize_MAX

returned == panicked = "none"

\* C1: a single on_packets_acked call never takes both the exit from CSS
\* back to normal slow start and the entry into CSS.
C1_CssMutualExclusion == ~(took.css_exit /\ took.css_entry)

\* C2: counting the round closures in CSS from the call that entered CSS,
\* closures 1 to 4 return exit_slow_start = false and closure 5 returns true.
C2_ForcedExitTiming ==
    (acked_call /\ returned /\ took.css_round) =>
        /\ css_closures \in 1 .. 4 => ~ret.exit_slow_start
        /\ css_closures = 5 => ret.exit_slow_start

C2_Witness ==
    /\ acked_call /\ returned /\ took.css_round
    /\ css_closures = 5
    /\ ret.exit_slow_start

\* C3 as stated: after every on_packets_acked call, whatever its arguments,
\* current_round_min_rtt is at most its value before and at most the sample.
C3_AnyArguments ==
    (acked_call /\ returned) =>
        /\ current.current_round_min_rtt <= pre.current_round_min_rtt
        /\ current.current_round_min_rtt <= call.args.rtt

\* C3: after every on_packets_acked call with threshold = sentinel,
\* current_round_min_rtt is at most its value before and at most the sample.
C3_SampleMonotonicity ==
    hystart_call =>
        /\ current.current_round_min_rtt <= pre.current_round_min_rtt
        /\ current.current_round_min_rtt <= call.args.rtt

C3_Witness ==
    /\ hystart_call
    /\ pre.current_round_min_rtt # Duration_MAX
    /\ call.args.rtt < pre.current_round_min_rtt
    /\ current.current_round_min_rtt = call.args.rtt

\* an on_packets_acked call that took the fallback to classic slow start
fallback_call == acked_call /\ returned /\ call.args.ssthresh # usize_MAX

\* C4: a call with threshold other than the sentinel returns what classic
\* slow start returns for the same arguments, whatever the engine's state.
C4_FallbackPurity ==
    fallback_call =>
        ret = ClassicSlowStart_on_packets_acked(call.args.curr_cwnd,
                                                call.args.ssthresh,
                                                call.args.new_acked)

C4_Witness ==
    /\ fallback_call
    /\ in_css(current)
    /\ is_some(current.window_end)
    /\ current.css_round_count > 0
    /\ ret.cwnd_increase > 0

\* limit * max_datagram_size of the last call, saturating
growth_limit == saturating_mul(limit, call.args.max_datagram_size)

\* C5: a call with threshold = sentinel returns a cwnd_increase of at most
\* newly_acked_bytes and at most sat(limit * max_datagram_size) / d, d = 4
\* in CSS and 1 otherwise.
C5_GrowthCap ==
    (hystart_call /\ returned) =>
        /\ ret.cwnd_increase <= call.args.new_acked
        /\ ret.cwnd_increase <=
               growth_limit \div (IF in_css(current) THEN 4 ELSE 1)

C5_Witness ==
    /\ hystart_call /\ returned
    /\ in_css(current)
    /\ ret.cwnd_increase = growth_limit \div 4
    /\ ret.cwnd_increase < call.args.new_acked

\* C6: on_packet_sent while a round is open changes no field of the state,
\* and a second on_packet_sent changes nothing after the first.
C6_RoundIsolation ==
    call.op = "on_packet_sent" =>
        /\ is_some(pre.window_end) => current = pre
        /\ \A pn \in PacketNumbers : maybe_start_new_round(current, pn) = current

C6_Witness ==
    /\ call.op = "on_packet_sent"
    /\ is_some(pre.window_end)
    /\ call.args.pn # unwrap(pre.window_end)
    /\ pre.rtt_sample_count > 0
    /\ pre.current_round_min_rtt # pre.last_round_min_rtt

\* C7: a call with threshold = sentinel returns
\* min(sat(limit * max_datagram_size), newly_acked_bytes), divided by 4
\* (rounding down) exactly when the engine is in CSS as the call returns.
C7_GrowthSize ==
    (hystart_call /\ returned) =>
        ret.cwnd_increase =
            IF in_css(current)
            THEN min(growth_limit, call.args.new_acked) \div 4
            ELSE min(growth_limit, call.args.new_acked)

C7_Witness ==
    /\ hystart_call /\ returned
    /\ ~in_css(pre) /\ took.css_entry
    /\ ret.cwnd_increase = min(growth_limit, call.args.new_acked) \div 4
    /\ ret.cwnd_increase # min(growth_limit, call.args.new_acked)

\* the round minimum and the sample count once the sample of the last call
\* is folded into the state the call started from
folded_min == min(pre.current_round_min_rtt, call.args.rtt)

folded_count == pre.rtt_sample_count + 1

\* max(4 ms, min(last_round_min_rtt / 8, 16 ms)) in nanoseconds
entry_thresh == max(4000000, min(pre.last_round_min_rtt \div 8, 16000000))

entry_signal ==
    /\ folded_count >= 8
    /\ folded_min # Duration_MAX
    /\ pre.last_round_min_rtt # Duration_MAX
    /\ folded_min - entry_thresh >= pre.last_round_min_rtt

\* C8: a call with threshold = sentinel takes the engine from not in CSS to
\* in CSS exactly when, with the sample folded in, there are at least 8
\* samples, both round minima are finite and the current one is at least the
\* last one plus the threshold; the baseline is then the current minimum.
C8_CssEntryCondition ==
    (hystart_call /\ ~in_css(pre)) =>
        /\ in_css(current) <=> entry_signal
        /\ in_css(current) => current.css_baseline_min_rtt = folded_min

C8_Witness ==
    /\ hystart_call /\ ~in_css(pre) /\ in_css(current)
    /\ folded_min = pre.last_round_min_rtt + entry_thresh
    /\ current.css_baseline_min_rtt = folded_min

\* C9: a call with threshold = sentinel made in CSS that, with the sample
\* folded in, has at least 8 samples and a round minimum below the baseline
\* returns with the engine out of CSS and css_round_count = 0.
C9_ExitCssToNormal ==
    ( /\ hystart_call /\ returned
      /\ in_css(pre)
      /\ folded_count >= 8
      /\ folded_min < pre.css_baseline_min_rtt ) =>
        /\ ~in_css(current)
        /\ current.css_round_count = 0

\* C10: no arithmetic step of a call panics or wraps.
C10_NoArithmeticPanic == panicked # "duration_add"

\* an on_packets_acked call that breaks the precondition
breaks_precondition == acked_call /\ call.args.ssthresh < call.args.curr_cwnd

\* C11 as stated: every call with ssthresh < curr_cwnd ends in an assertion
\* failure with no field of the state modified.
C11_EveryBuild ==
    breaks_precondition =>
        /\ panicked = "debug_assert"
        /\ current = pre

\* C11: in a build that keeps debug assertions, every call with
\* ssthresh < curr_cwnd ends in the assertion failure, returns no result
\* and has modified no field of the state.
C11_PreconditionCheck ==
    (breaks_precondition /\ call.args.debug_assertions) =>
        /\ panicked = "debug_assert"
        /\ current = pre
        /\ ret = no_result
        /\ took = no_steps

C11_Witness ==
    /\ breaks_precondition /\ call.args.debug_assertions
    /\ panicked = "debug_assert"
    /\ in_css(pre)
    /\ is_some(pre.window_end)
    /\ call.args.pn >= unwrap(pre.window_end)
    /\ call.args.rtt < pre.current_round_min_rtt

\* C12: every constructor yields the three minima at the infinite sentinel,
\* both counters at 0 and no open round, hence an engine not in CSS; limit
\* is the maximum when paced and 8 otherwise, and no operation changes it.
C12_InitialState ==
    /\ call.op \in {"new", "default"} =>
           /\ current.last_round_min_rtt = Duration_MAX
           /\ current.current_round_min_rtt = Duration_MAX
           /\ current.css_baseline_min_rtt = Duration_MAX
           /\ current.rtt_sample_count = 0
           /\ current.css_round_count = 0
           /\ current.window_end = None
           /\ ~in_css(current)
    /\ limit = IF made.pacing THEN usize_MAX ELSE 8

\* C13: a call with threshold = sentinel that enters CSS and acknowledges
\* the end of the open round closes the round in CSS, with
\* css_round_count = 1 and exit_slow_start = false.
C13_EntryRoundCounts ==
    ( /\ hystart_call /\ returned
      /\ took.css_entry
      /\ is_some(pre.window_end)
      /\ call.args.pn >= unwrap(pre.window_end) ) =>
        /\ current.window_end = None
        /\ in_css(current)
        /\ current.css_round_count = 1
        /\ ~ret.exit_slow_start

C13_Witness ==
    /\ hystart_call /\ returned
    /\ took.css_entry /\ ~in_css(pre)
    /\ is_some(pre.window_end)
    /\ call.args.pn >= unwrap(pre.window_end)
    /\ current.css_round_count = 1

\* C14: on_packet_sent(pn) with no round open sets window_end = Some(pn),
\* moves current_round_min_rtt into last_round_min_rtt, resets the current
\* minimum and the sample count and leaves the CSS fields alone; after any
\* on_packet_sent a round is open; and window_end is always the first packet
\* sent since the last round closure.
C14_RoundOpening ==
    /\ (call.op = "on_packet_sent" /\ pre.window_end = None) =>
           /\ current.window_end = {call.args.pn}
           /\ current.last_round_min_rtt = pre.current_round_min_rtt
           /\ current.current_round_min_rtt = Duration_MAX
           /\ current.rtt_sample_count = 0
           /\ current.css_baseline_min_rtt = pre.css_baseline_min_rtt
           /\ current.css_round_count = pre.css_round_count
    /\ call.op = "on_packet_sent" => current.window_end # None
    /\ current.window_end = opener

C14_Witness ==
    /\ call.op = "on_packet_sent" /\ pre.window_end = None
    /\ pre.current_round_min_rtt # Duration_MAX
    /\ pre.current_round_min_rtt # pre.last_round_min_rtt
    /\ pre.rtt_sample_count > 0
    /\ in_css(pre) /\ pre.css_round_count > 0

\* whether the last call acknowledged the end of the round open before it
acks_window_end ==
    is_some(pre.window_end) /\ call.args.pn >= unwrap(pre.window_end)

\* C15: a call with threshold = sentinel closes the open round exactly when
\* largest_acked >= window_end; otherwise window_end is unchanged,
\* css_round_count is not incremented and exit_slow_start is false; and no
\* on_packets_acked call sets window_end to a Some value.
C15_RoundClosure ==
    /\ (hystart_call /\ returned) =>
           IF acks_window_end
           THEN current.window_end = None
           ELSE /\ current.window_end = pre.window_end
                /\ current.css_round_count <= pre.css_round_count
                /\ ~ret.exit_slow_start
    /\ acked_call =>
           current.window_end = None \/ current.window_end = pre.window_end

C15_Witness ==
    /\ hystart_call /\ returned
    /\ is_some(pre.window_end) /\ ~acks_window_end
    /\ in_css(current)
    /\ current.css_round_count >= 4
    /\ current.window_end = pre.window_end

\* C16: a call with threshold = sentinel that returns exit_slow_start = true
\* leaves the engine in CSS with css_round_count >= 5, and every later round
\* closure in CSS returns true again unless the call leaves CSS.
C16_CssKeptOnForcedExit ==
    (hystart_call /\ returned) =>
        /\ ret.exit_slow_start =>
               in_css(current) /\ current.css_round_count >= 5
        /\ (took.css_round /\ pre.css_round_count >= 5 /\ ~took.css_exit) =>
               ret.exit_slow_start

C16_Witness ==
    /\ hystart_call /\ returned
    /\ took.css_round
    /\ pre.css_round_count >= 5
    /\ ret.exit_slow_start
    /\ in_css(current)

\* C17: an engine that is not in CSS has css_round_count = 0, so the count
\* is 0 when CSS is entered.
C17_CountZeroOutsideCss ==
    /\ ~in_css(current) => current.css_round_count = 0
    /\ (took.css_entry /\ returned) =>
           current.css_round_count = IF took.css_round THEN 1 ELSE 0

C17_Witness ==
    /\ ~in_css(current)
    /\ took.css_exit
    /\ pre.css_round_count > 0
    /\ current.css_round_count = 0

\* C18: a call with threshold other than the sentinel leaves every field of
\* the engine unchanged.
C18_FallbackFrame ==
    (acked_call /\ call.args.ssthresh # usize_MAX) =>
        /\ current = pre
        /\ limit = IF made.pacing THEN usize_MAX ELSE 8

C18_Witness ==
    /\ fallback_call
    /\ in_css(pre)
    /\ acks_window_end
    /\ call.args.rtt < pre.current_round_min_rtt
    /\ pre.rtt_sample_count >= 7
    /\ current = pre

\* C19: the engine leaves CSS only in a call with threshold = sentinel that,
\* with the sample folded in, has at least 8 samples and a round minimum
\* below the baseline; while it stays in CSS the baseline and the count of
\* CSS rounds do not decrease.
C19_OneWayOutOfCss ==
    /\ (in_css(pre) /\ ~in_css(current)) =>
           /\ hystart_call
           /\ folded_count >= 8
           /\ folded_min < pre.css_baseline_min_rtt
    /\ (in_css(pre) /\ in_css(current)) =>
           /\ current.css_baseline_min_rtt >= pre.css_baseline_min_rtt
           /\ current.css_round_count >= pre.css_round_count

\* C20: rtt_sample_count is the number of calls with threshold = sentinel
\* since the last round opening, and current_round_min_rtt is the least of
\* their samples, the infinite sentinel exactly when there is none.
C20_SampleBookkeeping ==
    /\ current.rtt_sample_count = open_acks
    /\ current.current_round_min_rtt = open_min
    /\ current.current_round_min_rtt = Duration_MAX <=>
           current.rtt_sample_count = 0

C20_Witness ==
    /\ hystart_call
    /\ current.window_end = None
    /\ pre.window_end = None
    /\ current.rtt_sample_count >= 3
    /\ open_acks = current.rtt_sample_count
    /\ current.current_round_min_rtt = call.args.rtt
    /\ pre.current_round_min_rtt > call.args.rtt

====
